---- MODULE Spec2Model ----
(***************************************************************************)
(* State-machine model of the J2534 PassThru session layer:                *)
(*   - the JNI wrapper  (j2534_jni.cpp):   device registry, string last     *)
(*     error, the global mutex and the simulated session operations;        *)
(*   - the native bridge (j2534_native.cpp): driver loading, the bound      *)
(*     driver slot, the numeric last error and the PassThru forwarders.     *)
(* Specifications:                                                          *)
(*   Spec            the wrapper's operations, one atomic step per call     *)
(*   RegistrySpec    the device registry up to its full capacity            *)
(*   NativeSpec      the native bridge, one atomic step per call            *)
(*   ConcSpec        wrapper calls of several threads, statement by         *)
(*                   statement, under the global mutex                      *)
(*   NativeConcSpec  native-bridge calls of several threads, statement by   *)
(*                   statement (the bridge takes no lock)                   *)
(***************************************************************************)
EXTENDS Integers, Sequences, FiniteSets, TLC

(***************************************************************************)
(* Program constants (j2534_jni.h, j2534_jni.cpp).                          *)
(***************************************************************************)
STATUS_NOERROR == 0
ERR_INVALID_PROTOCOL_ID == 3
ERR_NULL_PARAMETER == 4
ERR_INVALID_IOCTL_VALUE == 5
ERR_FAILED == 7
ERR_DEVICE_NOT_CONNECTED == 8
ERR_INVALID_MSG == 12
ERR_INVALID_IOCTL_ID == 16
ERR_PIN_INVALID == 20

PASS_FILTER == 1
BLOCK_FILTER == 2
FLOW_CONTROL_FILTER == 3

\* static J2534DeviceStruct g_devices[32]
MAX_DEVICES == 32
\* scanForDevices: for (int i = 0; i < 2; i++)
SCAN_FOUND == 2
\* device->handle = 1000 + i
DEVICE_HANDLE_BASE == 1000
\* channelHandle = deviceHandle + 10000
CHANNEL_OFFSET == 10000
\* return 1000 + handle
FILTER_OFFSET == 1000
PROTOCOL_MIN == 1
PROTOCOL_MAX == 10
PIN_MIN == 1
PIN_MAX == 16
\* the protocol id of the messages readMessages fills in
ISO15765 == 6
\* readMessages: (numMessages < 3) ? numMessages : 3
READ_MAX == 3

(***************************************************************************)
(* Bounds of the model.                                                     *)
(***************************************************************************)
\* g_last_error[512] is modelled as BufLen consecutive parts of the buffer
BufLen == 2
\* channels a caller holds at the same time
MaxChannels == 2
\* filters a caller holds at the same time
MaxFilters == 2
\* length of the message array given to writeMessages
MaxMsgs == 2
\* device slots Spec fills (RegistrySpec fills all MAX_DEVICES)
ScanCap == 2
\* threads of ConcSpec and NativeConcSpec
NumThreads == 2
\* driver tables the native bridge allocates
MaxTables == 2

NULL == "NULL"
NoText == ""

VARIABLES
    \* ---- j2534_jni.cpp
    g_devices,        \* [0..31 -> [handle, name]]
    g_device_count,
    g_last_error,     \* [1..BufLen -> text]: part i of the buffer holds part i of a text
    g_mutex,          \* 0: free, t: held by thread t
    \* ---- what the callers of the wrapper hold and saw
    channels,         \* handles returned by connect and not yet disconnected
    filters,          \* [channel, id] returned by startMessageFilter, not yet stopped
    cascaded,         \* <<channel, id>> of filters whose channel was disconnected
    lastCall,         \* the last completed call: [op, handle, arg, ret, err, pre]
    \* ---- threads (ConcSpec, NativeConcSpec)
    pc,               \* [thread -> the statement it executes next]
    local,            \* [thread -> its locals: text, i, result, lib]
    lastWrite,        \* [thread, text]: the last write of g_last_error that finished
    \* ---- j2534_native.cpp
    g_j2534_lib,      \* 0 (nullptr) or the address of a driver table
    g_last_error_n,   \* unsigned long g_last_error of the native bridge
    heap,             \* [address -> NULL | [hLibrary, fns]]: malloc'ed J2534_LIBRARY
    refcount,         \* [image -> number of LoadLibraryA not yet FreeLibrary'ed]
    lastNative        \* the last completed native call

jniVars == <<g_devices, g_device_count, g_last_error, g_mutex>>
callerVars == <<channels, filters, cascaded, lastCall>>
threadVars == <<pc, local, lastWrite>>
nativeVars == <<g_j2534_lib, g_last_error_n, heap, refcount, lastNative>>
vars == <<g_devices, g_device_count, g_last_error, g_mutex,
          channels, filters, cascaded, lastCall, pc, local, lastWrite,
          g_j2534_lib, g_last_error_n, heap, refcount, lastNative>>

(***************************************************************************)
(* The string last error of the wrapper.                                    *)
(***************************************************************************)
Texts == {"Invalid protocol ID", "Messages array is null",
          "Invalid protocol ID in message", "Mask or pattern is null",
          "Invalid filter type", "Invalid pin number", "Message is null",
          "Unsupported IOCTL operation"}

\* memset(g_last_error, 0, sizeof(g_last_error))
ZeroBuf == [i \in 1..BufLen |-> NoText]

\* strncpy copies the text and pads the rest with zeros, front to back:
\* after part i is written the buffer holds part i of `error` there
WritePart(buf, i, error) == [buf EXCEPT ![i] = error]

RECURSIVE strncpy(_, _, _)
strncpy(buf, error, i) ==
    IF i > BufLen THEN buf ELSE strncpy(WritePart(buf, i, error), error, i + 1)

\* setLastError, as one step: the buffer after lock; strncpy; terminator; unlock
setLastError(buf, error) == IF error = NoText THEN buf ELSE strncpy(buf, error, 1)

\* a buffer that holds one whole text (or is all zero)
Whole(buf) == \A i \in 1..BufLen : buf[i] = buf[1]

(***************************************************************************)
(* Device registry.                                                         *)
(***************************************************************************)
ZeroDevice == [handle |-> 0, name |-> NoText]
DeviceName(i) == IF i = 0 THEN "J2534_Device_0" ELSE "J2534_Device_1"
NoDevices == [k \in 0..(MAX_DEVICES - 1) |-> ZeroDevice]

\* the loop body without its test of g_device_count
ScanBody_unchecked(st, i) ==
    [devs  |-> [k \in DOMAIN st.devs \cup {st.count} |->
                   IF k = st.count
                   THEN [handle |-> DEVICE_HANDLE_BASE + i, name |-> DeviceName(i)]
                   ELSE st.devs[k]],
     count |-> st.count + 1,
     list  |-> Append(st.list, DEVICE_HANDLE_BASE + i)]

\* one pass of the loop body of scanForDevices, for index i, on state
\* st = [devs, count, list]
ScanBody(st, i) ==
    IF st.count < MAX_DEVICES
    THEN [devs  |-> [st.devs EXCEPT ![st.count] =
                        [handle |-> DEVICE_HANDLE_BASE + i, name |-> DeviceName(i)]],
          count |-> st.count + 1,
          list  |-> Append(st.list, DEVICE_HANDLE_BASE + i)]
    ELSE st

RECURSIVE ScanLoop(_, _)
ScanLoop(st, i) == IF i < SCAN_FOUND THEN ScanLoop(ScanBody(st, i), i + 1) ELSE st

\* handles of the devices the registry holds
RegisteredHandles == {g_devices[k].handle : k \in 0..(g_device_count - 1)}

(***************************************************************************)
(* Pure parts of the session operations.                                    *)
(***************************************************************************)
ValidProtocol(protocol) == ~(protocol < PROTOCOL_MIN \/ protocol > PROTOCOL_MAX)

\* connect: [ret, err]
connect_result(deviceHandle, protocol) ==
    IF ~ValidProtocol(protocol)
    THEN [ret |-> ERR_INVALID_PROTOCOL_ID, err |-> "Invalid protocol ID"]
    ELSE [ret |-> deviceHandle + CHANNEL_OFFSET, err |-> NoText]

\* a Java reference: no object (null), or an object with its fields
NullObj == [null |-> TRUE, protocolID |-> 0, elems |-> <<>>]
Message(protocolID) == [null |-> FALSE, protocolID |-> protocolID, elems |-> <<>>]
Array(elems) == [null |-> FALSE, protocolID |-> 0, elems |-> elems]

\* GetObjectArrayElement(messages, i), i counted from 0
ElementAt(messages, i) ==
    IF i + 1 \in DOMAIN messages.elems THEN messages.elems[i + 1] ELSE NullObj

\* the validation loop of writeMessages from index i on: [ret, err]
RECURSIVE writeMessages_loop_skipping(_, _, _)
writeMessages_loop_skipping(messages, numMessages, i) ==
    IF i >= numMessages THEN [ret |-> STATUS_NOERROR, err |-> NoText]
    ELSE IF ~ElementAt(messages, i).null /\ ~ValidProtocol(ElementAt(messages, i).protocolID)
              /\ i = 0
         THEN [ret |-> ERR_INVALID_MSG, err |-> "Invalid protocol ID in message"]
         ELSE writeMessages_loop_skipping(messages, numMessages, i + 1)

RECURSIVE writeMessages_loop(_, _, _)
writeMessages_loop(messages, numMessages, i) ==
    IF i >= numMessages THEN [ret |-> STATUS_NOERROR, err |-> NoText]
    ELSE IF ~ElementAt(messages, i).null /\ ~ValidProtocol(ElementAt(messages, i).protocolID)
         THEN [ret |-> ERR_INVALID_MSG, err |-> "Invalid protocol ID in message"]
         ELSE writeMessages_loop(messages, numMessages, i + 1)

writeMessages_result(messages, numMessages) ==
    IF messages.null
    THEN [ret |-> ERR_NULL_PARAMETER, err |-> "Messages array is null"]
    ELSE writeMessages_loop(messages, numMessages, 0)

\* the two checks of startMessageFilter in the other order
startMessageFilter_result_typeFirst(handle, filterType, mask, pattern) ==
    IF filterType # PASS_FILTER /\ filterType # BLOCK_FILTER
          /\ filterType # FLOW_CONTROL_FILTER
    THEN [ret |-> ERR_INVALID_IOCTL_VALUE, err |-> "Invalid filter type"]
    ELSE IF mask = NULL \/ pattern = NULL
         THEN [ret |-> ERR_NULL_PARAMETER, err |-> "Mask or pattern is null"]
         ELSE [ret |-> FILTER_OFFSET + handle, err |-> NoText]

startMessageFilter_result(handle, filterType, mask, pattern) ==
    IF mask = NULL \/ pattern = NULL
    THEN [ret |-> ERR_NULL_PARAMETER, err |-> "Mask or pattern is null"]
    ELSE IF filterType # PASS_FILTER /\ filterType # BLOCK_FILTER
              /\ filterType # FLOW_CONTROL_FILTER
         THEN [ret |-> ERR_INVALID_IOCTL_VALUE, err |-> "Invalid filter type"]
         ELSE [ret |-> FILTER_OFFSET + handle, err |-> NoText]

\* the loop of readMessages from index i on, st = [elems, actualMessages]:
\* every element that holds an object is overwritten with a sample message
RECURSIVE readMessages_loop(_, _, _)
readMessages_loop(st, messagesToReturn, i) ==
    IF i >= messagesToReturn THEN st
    ELSE IF i + 1 \in DOMAIN st.elems /\ ~st.elems[i + 1].null
         THEN readMessages_loop([elems |-> [st.elems EXCEPT ![i + 1] = Message(ISO15765)],
                                 actualMessages |-> st.actualMessages + 1],
                                messagesToReturn, i + 1)
         ELSE readMessages_loop(st, messagesToReturn, i + 1)

\* readMessages: what it returns, the error text it sets, the array after
\* the call and its local actualMessages, which it drops on return
readMessages_result(messages, numMessages) ==
    IF messages.null
    THEN [ret |-> ERR_NULL_PARAMETER, err |-> "Messages array is null",
          out |-> messages, actualMessages |-> 0]
    ELSE LET messagesToReturn == IF numMessages < READ_MAX THEN numMessages ELSE READ_MAX
             st == readMessages_loop([elems |-> messages.elems, actualMessages |-> 0],
                                     messagesToReturn, 0)
         IN  [ret |-> STATUS_NOERROR, err |-> NoText,
              out |-> Array(st.elems), actualMessages |-> st.actualMessages]

startPeriodicMessage_result(message, id, period) ==
    IF message.null
    THEN [ret |-> ERR_NULL_PARAMETER, err |-> "Message is null"]
    ELSE [ret |-> STATUS_NOERROR, err |-> NoText]

\* ioctl without its case 0x07
ioctl_result_noVbatt(ioControlCode) ==
    CASE ioControlCode = 1 -> [ret |-> STATUS_NOERROR, err |-> NoText]
      [] ioControlCode = 2 -> [ret |-> STATUS_NOERROR, err |-> NoText]
      [] ioControlCode = 3 -> [ret |-> STATUS_NOERROR, err |-> NoText]
      [] OTHER -> [ret |-> ERR_INVALID_IOCTL_ID, err |-> "Unsupported IOCTL operation"]

ioctl_result(ioControlCode) ==
    CASE ioControlCode = 1 -> [ret |-> STATUS_NOERROR, err |-> NoText]
      [] ioControlCode = 2 -> [ret |-> STATUS_NOERROR, err |-> NoText]
      [] ioControlCode = 3 -> [ret |-> STATUS_NOERROR, err |-> NoText]
      [] ioControlCode = 7 -> [ret |-> STATUS_NOERROR, err |-> NoText]
      [] OTHER -> [ret |-> ERR_INVALID_IOCTL_ID, err |-> "Unsupported IOCTL operation"]

\* setProgrammingVoltage turning the unusual voltages down as well
setProgrammingVoltage_result_strict(pinNumber, voltage) ==
    IF pinNumber < PIN_MIN \/ pinNumber > PIN_MAX
          \/ (voltage # 0 /\ voltage # 7200 /\ voltage # 12000)
    THEN [ret |-> ERR_PIN_INVALID, err |-> "Invalid pin number"]
    ELSE [ret |-> STATUS_NOERROR, err |-> NoText]

setProgrammingVoltage_result(pinNumber, voltage) ==
    IF pinNumber < PIN_MIN \/ pinNumber > PIN_MAX
    THEN [ret |-> ERR_PIN_INVALID, err |-> "Invalid pin number"]
    ELSE [ret |-> STATUS_NOERROR, err |-> NoText]

(***************************************************************************)
(* Inputs of the calls.                                                     *)
(***************************************************************************)
\* the handles discovery gives out
DeviceHandleIn == {DEVICE_HANDLE_BASE, DEVICE_HANDLE_BASE + 1}
\* handles a caller may pass: any jlong, among them negative ones
AnyHandleIn == {-9997, -996, DEVICE_HANDLE_BASE}
ProtocolIn == {0, 1, 10, 11}
\* the channel handles connect gives out for DeviceHandleIn
ChannelHandleIn == {h + CHANNEL_OFFSET : h \in DeviceHandleIn}
FilterIdIn == {h + FILTER_OFFSET : h \in ChannelHandleIn}
FilterTypeIn == {0, 1, 2, 3, 4}
PayloadIn == {NULL, "bytes"}
PinIn == {0, 1, 16, 17}
VoltageIn == {0, 5000, 12000}
\* an element of the message array: no object, or a message with its protocolID
ElementIn == {NullObj, Message(1), Message(11)}

RECURSIVE SeqsUpTo(_, _)
SeqsUpTo(S, n) ==
    IF n = 0 THEN {<<>>}
    ELSE LET shorter == SeqsUpTo(S, n - 1)
         IN  shorter \cup {Append(q, x) : q \in shorter, x \in S}

MessagesIn == {NullObj} \cup {Array(q) : q \in SeqsUpTo(ElementIn, MaxMsgs)}
\* arrays given to readMessages: long enough for its limit of 3 to matter;
\* each element is null or a message object the caller created
ReadBuffersIn ==
    {NullObj} \cup {Array(q) : q \in SeqsUpTo({NullObj, Message(0)}, MaxMsgs + 2)}
PeriodIn == {-1, 0, 100}
IoctlIn == {0, 1, 2, 3, 4, 7, 8}

Range(q) == {q[i] : i \in DOMAIN q}

\* q without its first element equal to x
RECURSIVE RemoveFirst(_, _)
RemoveFirst(q, x) ==
    IF q = <<>> THEN <<>>
    ELSE IF Head(q) = x THEN Tail(q)
         ELSE <<Head(q)>> \o RemoveFirst(Tail(q), x)

RECURSIVE Without(_, _)
Without(q, channel) ==
    IF q = <<>> THEN <<>>
    ELSE IF Head(q).channel = channel THEN Without(Tail(q), channel)
         ELSE <<Head(q)>> \o Without(Tail(q), channel)

Call(op, handle, arg, ret, err, pre) ==
    [op |-> op, handle |-> handle, arg |-> arg, ret |-> ret, err |-> err, pre |-> pre]

(***************************************************************************)
(* The wrapper's calls, each as one step.  A call's parameters are the sets *)
(* its arguments are drawn from.                                            *)
(***************************************************************************)
initialize ==
    /\ g_device_count' = 0
    /\ g_devices' = NoDevices
    /\ g_last_error' = ZeroBuf
    /\ lastCall' = Call("initialize", 0, 0, TRUE, NoText, 0)
    /\ UNCHANGED <<g_mutex, channels, filters, cascaded, threadVars, nativeVars>>

scanForDevices ==
    LET st == ScanLoop([devs |-> g_devices, count |-> g_device_count, list |-> <<>>], 0)
    IN  /\ g_devices' = st.devs
        /\ g_device_count' = st.count
        /\ lastCall' = Call("scanForDevices", 0, 0, st.list, NoText, g_device_count)
        /\ UNCHANGED <<g_last_error, g_mutex, channels, filters, cascaded,
                       threadVars, nativeVars>>

connect(Handles, Protocols) ==
    \E deviceHandle \in Handles, protocol \in Protocols :
        LET r == connect_result(deviceHandle, protocol)
        IN  /\ r.err = NoText => Len(channels) < MaxChannels
            /\ g_last_error' = setLastError(g_last_error, r.err)
            /\ channels' = IF r.err = NoText THEN Append(channels, r.ret) ELSE channels
            /\ lastCall' = Call("connect", deviceHandle, protocol, r.ret, r.err,
                                deviceHandle \in RegisteredHandles)
            /\ UNCHANGED <<g_devices, g_device_count, g_mutex, filters, cascaded,
                           threadVars, nativeVars>>

disconnect(Handles) ==
    \E handle \in Handles :
        LET left == RemoveFirst(channels, handle)
            gone == handle \in Range(channels) /\ handle \notin Range(left)
        IN  /\ channels' = left
            /\ filters' = IF gone THEN Without(filters, handle) ELSE filters
            /\ cascaded' = IF gone
                           THEN cascaded \cup {<<f.channel, f.id>> :
                                    f \in {g \in Range(filters) : g.channel = handle}}
                           ELSE cascaded
            /\ lastCall' = Call("disconnect", handle, 0, STATUS_NOERROR, NoText,
                                handle \in Range(channels))
            /\ UNCHANGED <<jniVars, threadVars, nativeVars>>

writeMessages(Handles, Arrays) ==
    \E handle \in Handles, messages \in Arrays :
      \E numMessages \in 0..Len(messages.elems) :
        LET r == writeMessages_result(messages, numMessages)
        IN  /\ g_last_error' = setLastError(g_last_error, r.err)
            /\ lastCall' = Call("writeMessages", handle,
                                [messages |-> messages, numMessages |-> numMessages],
                                r.ret, r.err, 0)
            /\ UNCHANGED <<g_devices, g_device_count, g_mutex, channels, filters,
                           cascaded, threadVars, nativeVars>>

startMessageFilter(Handles, Types, Payloads) ==
    \E handle \in Handles, filterType \in Types, mask \in Payloads, pattern \in Payloads :
        LET r == startMessageFilter_result(handle, filterType, mask, pattern)
        IN  /\ r.err = NoText => Len(filters) < MaxFilters
            /\ g_last_error' = setLastError(g_last_error, r.err)
            /\ filters' = IF r.err = NoText
                          THEN Append(filters, [channel |-> handle, id |-> r.ret])
                          ELSE filters
            /\ cascaded' = IF r.err = NoText THEN cascaded \ {<<handle, r.ret>>}
                           ELSE cascaded
            /\ lastCall' = Call("startMessageFilter", handle,
                                [filterType |-> filterType, mask |-> mask,
                                 pattern |-> pattern], r.ret, r.err, 0)
            /\ UNCHANGED <<g_devices, g_device_count, g_mutex, channels,
                           threadVars, nativeVars>>

stopMessageFilter(Handles, Ids) ==
    \E handle \in Handles, filterId \in Ids :
        /\ filters' = RemoveFirst(filters, [channel |-> handle, id |-> filterId])
        /\ lastCall' = Call("stopMessageFilter", handle, filterId, STATUS_NOERROR, NoText,
                            [live |-> [channel |-> handle, id |-> filterId] \in Range(filters),
                             cascaded |-> <<handle, filterId>> \in cascaded])
        /\ UNCHANGED <<jniVars, channels, cascaded, threadVars, nativeVars>>

setProgrammingVoltage(Handles, Pins, Voltages) ==
    \E handle \in Handles, pinNumber \in Pins, voltage \in Voltages :
        LET r == setProgrammingVoltage_result(pinNumber, voltage)
        IN  /\ g_last_error' = setLastError(g_last_error, r.err)
            /\ lastCall' = Call("setProgrammingVoltage", handle,
                                [pinNumber |-> pinNumber, voltage |-> voltage],
                                r.ret, r.err, 0)
            /\ UNCHANGED <<g_devices, g_device_count, g_mutex, channels, filters,
                           cascaded, threadVars, nativeVars>>

readMessages(Handles, Buffers) ==
    \E handle \in Handles, messages \in Buffers :
      \E numMessages \in 0..Len(messages.elems) :
        LET r == readMessages_result(messages, numMessages)
        IN  /\ g_last_error' = setLastError(g_last_error, r.err)
            /\ lastCall' = Call("readMessages", handle,
                                [messages |-> messages, numMessages |-> numMessages,
                                 out |-> r.out],
                                r.ret, r.err, 0)
            /\ UNCHANGED <<g_devices, g_device_count, g_mutex, channels, filters,
                           cascaded, threadVars, nativeVars>>

startPeriodicMessage(Handles, Objects, Periods) ==
    \E handle \in Handles, message \in Objects, id \in {1}, period \in Periods :
        LET r == startPeriodicMessage_result(message, id, period)
        IN  /\ g_last_error' = setLastError(g_last_error, r.err)
            /\ lastCall' = Call("startPeriodicMessage", handle,
                                [message |-> message, id |-> id, period |-> period],
                                r.ret, r.err, 0)
            /\ UNCHANGED <<g_devices, g_device_count, g_mutex, channels, filters,
                           cascaded, threadVars, nativeVars>>

ioctl(Handles, Codes) ==
    \E handle \in Handles, ioControlCode \in Codes :
        LET r == ioctl_result(ioControlCode)
        IN  /\ g_last_error' = setLastError(g_last_error, r.err)
            /\ lastCall' = Call("ioctl", handle, ioControlCode, r.ret, r.err, 0)
            /\ UNCHANGED <<g_devices, g_device_count, g_mutex, channels, filters,
                           cascaded, threadVars, nativeVars>>

getLastError ==
    /\ lastCall' = Call("getLastError", 0, 0, g_last_error, NoText, 0)
    /\ UNCHANGED <<jniVars, channels, filters, cascaded, threadVars, nativeVars>>

cleanup ==
    /\ g_devices' = NoDevices
    /\ g_device_count' = 0
    /\ g_last_error' = ZeroBuf
    /\ lastCall' = Call("cleanup", 0, 0, 0, NoText,
                        [handles |-> RegisteredHandles, native |-> lastNative])
    /\ UNCHANGED <<g_mutex, channels, filters, cascaded, threadVars, nativeVars>>

(***************************************************************************)
(* The wrapper's calls statement by statement, for thread t (ConcSpec).     *)
(***************************************************************************)
Threads == 1..NumThreads
\* entry: g_device_count when the thread's scan took the mutex
NoLocals == [text |-> NoText, i |-> 0, result |-> ZeroBuf, lib |-> 0, entry |-> 0]

Goto(t, label) == pc' = [pc EXCEPT ![t] = label]
Idle(t) == pc[t] = "idle"

\* pthread_mutex_lock(&g_mutex): blocks while another thread holds the mutex
pthread_mutex_lock(t) == g_mutex = 0 /\ g_mutex' = t
\* pthread_mutex_unlock(&g_mutex)
pthread_mutex_unlock(t) == g_mutex' = 0

\* connect with a protocol outside 1..10 and setProgrammingVoltage with a pin
\* outside 1..16: the call reaches setLastError with its text
call_connect_invalid(t) ==
    /\ Idle(t)
    /\ \E protocol \in {0, 11} :
          local' = [local EXCEPT ![t].text = connect_result(DEVICE_HANDLE_BASE, protocol).err]
    /\ Goto(t, "sle_lock")
    /\ UNCHANGED <<jniVars, callerVars, lastWrite, nativeVars>>

call_setProgrammingVoltage_invalid(t) ==
    /\ Idle(t)
    /\ \E pinNumber \in {0, 17} :
          local' = [local EXCEPT ![t].text = setProgrammingVoltage_result(pinNumber, 0).err]
    /\ Goto(t, "sle_lock")
    /\ UNCHANGED <<jniVars, callerVars, lastWrite, nativeVars>>

sle_lock(t) ==
    /\ pc[t] = "sle_lock"
    /\ pthread_mutex_lock(t)
    /\ local' = [local EXCEPT ![t].i = 1]
    /\ Goto(t, "sle_copy")
    /\ UNCHANGED <<g_devices, g_device_count, g_last_error, callerVars, lastWrite,
                   nativeVars>>

\* strncpy and the terminator, one part of the buffer per step
sle_copy(t) ==
    /\ pc[t] = "sle_copy"
    /\ g_last_error' = WritePart(g_last_error, local[t].i, local[t].text)
    /\ IF local[t].i < BufLen
       THEN /\ local' = [local EXCEPT ![t].i = @ + 1]
            /\ UNCHANGED <<pc, lastWrite>>
       ELSE /\ lastWrite' = [thread |-> t, text |-> local[t].text]
            /\ Goto(t, "sle_unlock")
            /\ UNCHANGED local
    /\ UNCHANGED <<g_devices, g_device_count, g_mutex, callerVars, nativeVars>>

\* setLastError returning with the mutex still held
sle_return_locked(t) ==
    /\ pc[t] = "sle_unlock"
    /\ local' = [local EXCEPT ![t] = NoLocals]
    /\ Goto(t, "idle")
    /\ UNCHANGED <<jniVars, callerVars, lastWrite, nativeVars>>

sle_unlock(t) ==
    /\ pc[t] = "sle_unlock"
    /\ pthread_mutex_unlock(t)
    /\ local' = [local EXCEPT ![t] = NoLocals]
    /\ Goto(t, "idle")
    /\ UNCHANGED <<g_devices, g_device_count, g_last_error, callerVars, lastWrite,
                   nativeVars>>

call_getLastError(t) ==
    /\ Idle(t)
    /\ Goto(t, "gle_lock")
    /\ UNCHANGED <<jniVars, callerVars, local, lastWrite, nativeVars>>

gle_lock_skipped(t) ==
    /\ pc[t] = "gle_lock"
    /\ local' = [local EXCEPT ![t].i = 1]
    /\ Goto(t, "gle_read")
    /\ UNCHANGED <<jniVars, callerVars, lastWrite, nativeVars>>

gle_lock(t) ==
    /\ pc[t] = "gle_lock"
    /\ pthread_mutex_lock(t)
    /\ local' = [local EXCEPT ![t].i = 1]
    /\ Goto(t, "gle_read")
    /\ UNCHANGED <<g_devices, g_device_count, g_last_error, callerVars, lastWrite,
                   nativeVars>>

\* NewStringUTF(env, g_last_error) reads the buffer front to back
gle_read(t) ==
    /\ pc[t] = "gle_read"
    /\ local' = [local EXCEPT ![t].result = WritePart(@, local[t].i, g_last_error[local[t].i]),
                              ![t].i = IF @ < BufLen THEN @ + 1 ELSE @]
    /\ IF local[t].i < BufLen THEN UNCHANGED pc ELSE Goto(t, "gle_unlock")
    /\ UNCHANGED <<jniVars, callerVars, lastWrite, nativeVars>>

\* unlock and return local[t].result
gle_unlock(t) ==
    /\ pc[t] = "gle_unlock"
    /\ pthread_mutex_unlock(t)
    /\ local' = [local EXCEPT ![t] = NoLocals]
    /\ Goto(t, "idle")
    /\ UNCHANGED <<g_devices, g_device_count, g_last_error, callerVars, lastWrite,
                   nativeVars>>

\* initialize and cleanup: lock; reset the registry; memset(g_last_error); unlock
call_initialize(t) ==
    /\ Idle(t)
    /\ Goto(t, "init_lock")
    /\ UNCHANGED <<jniVars, callerVars, local, lastWrite, nativeVars>>

call_cleanup(t) ==
    /\ Idle(t)
    /\ Goto(t, "cln_lock")
    /\ UNCHANGED <<jniVars, callerVars, local, lastWrite, nativeVars>>

reset_lock(t) ==
    /\ pc[t] \in {"init_lock", "cln_lock"}
    /\ pthread_mutex_lock(t)
    /\ Goto(t, IF pc[t] = "init_lock" THEN "init_count" ELSE "cln_devices")
    /\ UNCHANGED <<g_devices, g_device_count, g_last_error, callerVars, local, lastWrite,
                   nativeVars>>

\* g_device_count = 0
reset_count(t) ==
    /\ pc[t] \in {"init_count", "cln_count"}
    /\ g_device_count' = 0
    /\ IF pc[t] = "init_count"
       THEN Goto(t, "init_devices") /\ UNCHANGED local
       ELSE Goto(t, "reset_error") /\ local' = [local EXCEPT ![t].i = 1]
    /\ UNCHANGED <<g_devices, g_last_error, g_mutex, callerVars, lastWrite, nativeVars>>

\* memset(g_devices, 0, sizeof(g_devices))
reset_devices(t) ==
    /\ pc[t] \in {"init_devices", "cln_devices"}
    /\ g_devices' = NoDevices
    /\ IF pc[t] = "init_devices"
       THEN Goto(t, "reset_error") /\ local' = [local EXCEPT ![t].i = 1]
       ELSE Goto(t, "cln_count") /\ UNCHANGED local
    /\ UNCHANGED <<g_device_count, g_last_error, g_mutex, callerVars, lastWrite, nativeVars>>

\* memset(g_last_error, 0, sizeof(g_last_error)), one part per step
reset_error(t) ==
    /\ pc[t] = "reset_error"
    /\ g_last_error' = WritePart(g_last_error, local[t].i, NoText)
    /\ IF local[t].i < BufLen
       THEN /\ local' = [local EXCEPT ![t].i = @ + 1]
            /\ UNCHANGED <<pc, lastWrite>>
       ELSE /\ lastWrite' = [thread |-> t, text |-> NoText]
            /\ Goto(t, "reset_unlock")
            /\ UNCHANGED local
    /\ UNCHANGED <<g_devices, g_device_count, g_mutex, callerVars, nativeVars>>

reset_unlock(t) ==
    /\ pc[t] = "reset_unlock"
    /\ pthread_mutex_unlock(t)
    /\ local' = [local EXCEPT ![t] = NoLocals]
    /\ Goto(t, "idle")
    /\ UNCHANGED <<g_devices, g_device_count, g_last_error, callerVars, lastWrite,
                   nativeVars>>

\* scanForDevices: lock; the loop, one pass per step; unlock
call_scanForDevices(t) ==
    /\ Idle(t)
    /\ Goto(t, "scan_lock")
    /\ UNCHANGED <<jniVars, callerVars, local, lastWrite, nativeVars>>

scan_lock(t) ==
    /\ pc[t] = "scan_lock"
    /\ pthread_mutex_lock(t)
    /\ local' = [local EXCEPT ![t].i = 0, ![t].entry = g_device_count]
    /\ Goto(t, "scan_loop")
    /\ UNCHANGED <<g_devices, g_device_count, g_last_error, callerVars, lastWrite,
                   nativeVars>>

scan_loop(t) ==
    /\ pc[t] = "scan_loop"
    /\ LET st == ScanBody([devs |-> g_devices, count |-> g_device_count, list |-> <<>>],
                          local[t].i)
       IN  /\ g_devices' = st.devs
           /\ g_device_count' = st.count
    /\ local' = [local EXCEPT ![t].i = @ + 1]
    /\ IF local[t].i + 1 < SCAN_FOUND THEN UNCHANGED pc ELSE Goto(t, "scan_unlock")
    /\ UNCHANGED <<g_last_error, g_mutex, callerVars, lastWrite, nativeVars>>

scan_unlock(t) ==
    /\ pc[t] = "scan_unlock"
    /\ pthread_mutex_unlock(t)
    /\ local' = [local EXCEPT ![t] = NoLocals]
    /\ Goto(t, "idle")
    /\ UNCHANGED <<g_devices, g_device_count, g_last_error, callerVars, lastWrite,
                   nativeVars>>

(***************************************************************************)
(* The native bridge (j2534_native.cpp, j2534_native.h).                    *)
(***************************************************************************)
EntryPoints == {"PassThruOpen", "PassThruClose", "PassThruConnect", "PassThruDisconnect",
                "PassThruReadMsgs", "PassThruWriteMsgs", "PassThruStartMsgFilter",
                "PassThruStopMsgFilter", "PassThruSetProgrammingVoltage",
                "PassThruReadVersion", "PassThruGetLastError", "PassThruIoctl"}
Essential == {"PassThruOpen", "PassThruClose", "PassThruConnect", "PassThruDisconnect"}

\* driver images on disk, by path, with the entry points each exports;
\* "absent.dll" is a path LoadLibraryA cannot load
Images == {"full.dll", "essential.dll", "no_open.dll", "no_close.dll",
           "no_connect.dll", "no_disconnect.dll"}
PathIn == Images \cup {"absent.dll"}
Exports(image) ==
    CASE image = "full.dll" -> EntryPoints
      [] image = "essential.dll" -> Essential
      [] image = "no_open.dll" -> EntryPoints \ {"PassThruOpen"}
      [] image = "no_close.dll" -> EntryPoints \ {"PassThruClose"}
      [] image = "no_connect.dll" -> EntryPoints \ {"PassThruConnect"}
      [] image = "no_disconnect.dll" -> EntryPoints \ {"PassThruDisconnect"}
      [] OTHER -> {}

\* jint, long and unsigned long are 32 bits wide (jni.h, windows.h); the ids
\* and status codes below all lie in 0..2^31-1, which the casts between them
\* leave as they are

\* a block of the heap: free, or a J2534_LIBRARY with its hLibrary and the
\* entry points GetProcAddress resolved (the others are nullptr)
FreeBlock == [used |-> FALSE, hLibrary |-> "", fns |-> {}]
FreeAddresses(hp) == {a \in DOMAIN hp : ~hp[a].used}
\* malloc gives out the lowest free address
malloc(hp) == CHOOSE a \in FreeAddresses(hp) : \A b \in FreeAddresses(hp) : a <= b

\* the check of load_j2534_library: an essential entry point is nullptr
EssentialMissing_three(fns) ==
    \/ "PassThruOpen" \notin fns
    \/ "PassThruClose" \notin fns
    \/ "PassThruConnect" \notin fns

EssentialMissing(fns) ==
    \/ "PassThruOpen" \notin fns
    \/ "PassThruClose" \notin fns
    \/ "PassThruConnect" \notin fns
    \/ "PassThruDisconnect" \notin fns

\* load_j2534_library returning nullptr on a missing essential entry point
\* without FreeLibrary(hLib) and free(lib)
load_j2534_library_leaky(hp, rc, library_path, mallocOk) ==
    IF library_path \notin Images
    THEN [lib |-> 0, heap |-> hp, refcount |-> rc]
    ELSE LET hLib == library_path
             loaded == [rc EXCEPT ![hLib] = @ + 1]
         IN  IF ~mallocOk
             THEN [lib |-> 0, heap |-> hp, refcount |-> [loaded EXCEPT ![hLib] = @ - 1]]
             ELSE LET lib == malloc(hp)
                      fns == {f \in EntryPoints : f \in Exports(hLib)}
                      table == [used |-> TRUE, hLibrary |-> hLib, fns |-> fns]
                  IN  [lib |-> IF EssentialMissing(fns) THEN 0 ELSE lib,
                       heap |-> [hp EXCEPT ![lib] = table],
                       refcount |-> loaded]

\* load_j2534_library on heap hp and reference counts rc:
\* [lib, heap, refcount], lib = 0 for nullptr
load_j2534_library(hp, rc, library_path, mallocOk) ==
    IF library_path \notin Images
    THEN [lib |-> 0, heap |-> hp, refcount |-> rc]
    ELSE LET hLib == library_path
             loaded == [rc EXCEPT ![hLib] = @ + 1]
         IN  IF ~mallocOk
             THEN [lib |-> 0, heap |-> hp, refcount |-> [loaded EXCEPT ![hLib] = @ - 1]]
             ELSE LET lib == malloc(hp)
                      fns == {f \in EntryPoints : f \in Exports(hLib)}
                      table == [used |-> TRUE, hLibrary |-> hLib, fns |-> fns]
                  IN  IF EssentialMissing(fns)
                      THEN [lib |-> 0,
                            heap |-> [[hp EXCEPT ![lib] = table] EXCEPT ![lib] = FreeBlock],
                            refcount |-> [loaded EXCEPT ![hLib] = @ - 1]]
                      ELSE [lib |-> lib,
                            heap |-> [hp EXCEPT ![lib] = table],
                            refcount |-> loaded]

\* what a driver entry point may return
DriverStatusIn == {STATUS_NOERROR, ERR_FAILED}
\* an unsigned long (32 bits with windows.h) as its two 16-bit halves
ULong(hi, lo) == [hi |-> hi, lo |-> lo]
\* static_cast<jint>(unsigned long): the same 32 bits read as a signed int
ToJint(u) ==
    IF u.hi >= 32768 THEN (u.hi - 65536) * 65536 + u.lo ELSE u.hi * 65536 + u.lo
\* the ids a driver may assign: any unsigned long
DriverIdIn == {ULong(0, 1), ULong(0, 2), ULong(65535, 65535)}
NativeIdIn == {1}

NCall(op, arg, ret, drv, drvArg, pre) ==
    [op |-> op, arg |-> arg, ret |-> ret, drv |-> drv, drvArg |-> drvArg, pre |-> pre]

\* the check without its first half
NotBound_entryOnly(fn) == g_j2534_lib # 0 /\ fn \notin heap[g_j2534_lib].fns

\* g_j2534_lib == nullptr || g_j2534_lib->fn == nullptr
NotBound(fn) == g_j2534_lib = 0 \/ fn \notin heap[g_j2534_lib].fns

nativeLoadLibrary ==
    \E pathOk \in BOOLEAN, library_path \in PathIn, mallocOk \in BOOLEAN :
        LET r == load_j2534_library(heap, refcount, library_path, mallocOk)
            pre == [refcount |-> refcount, heap |-> heap, lib |-> g_j2534_lib]
            arg == [pathOk |-> pathOk, path |-> library_path, mallocOk |-> mallocOk]
        IN  /\ (pathOk /\ mallocOk) => FreeAddresses(heap) # {}
            /\ IF ~pathOk
               THEN /\ g_last_error_n' = ERR_NULL_PARAMETER
                    /\ lastNative' = NCall("nativeLoadLibrary", arg, 0, "none", 0, pre)
                    /\ UNCHANGED <<g_j2534_lib, heap, refcount>>
               ELSE IF r.lib = 0
               THEN /\ g_last_error_n' = ERR_FAILED
                    /\ heap' = r.heap
                    /\ refcount' = r.refcount
                    /\ lastNative' = NCall("nativeLoadLibrary", arg, 0, "none", 0, pre)
                    /\ UNCHANGED g_j2534_lib
               ELSE /\ g_j2534_lib' = r.lib
                    /\ g_last_error_n' = STATUS_NOERROR
                    /\ heap' = r.heap
                    /\ refcount' = r.refcount
                    /\ lastNative' = NCall("nativeLoadLibrary", arg, r.lib, "none", 0, pre)
            /\ UNCHANGED <<jniVars, callerVars, threadVars>>

nativePassThruOpen ==
    /\ IF NotBound("PassThruOpen")
       THEN /\ g_last_error_n' = ERR_DEVICE_NOT_CONNECTED
            /\ lastNative' = NCall("nativePassThruOpen", 0, -1, "none", 0, 0)
       ELSE \E result \in DriverStatusIn, device_id \in DriverIdIn :
            /\ g_last_error_n' = result
            /\ lastNative' = NCall("nativePassThruOpen", 0,
                                   IF result = 0 THEN ToJint(device_id) ELSE -1,
                                   "PassThruOpen", 0,
                                   [result |-> result, id |-> device_id])
    /\ UNCHANGED <<g_j2534_lib, heap, refcount, jniVars, callerVars, threadVars>>

nativePassThruClose ==
    \E device_id \in NativeIdIn :
    /\ IF NotBound("PassThruClose")
       THEN /\ g_last_error_n' = ERR_DEVICE_NOT_CONNECTED
            /\ lastNative' = NCall("nativePassThruClose", device_id,
                                   ERR_DEVICE_NOT_CONNECTED, "none", 0, 0)
       ELSE \E result \in DriverStatusIn :
            /\ g_last_error_n' = result
            /\ lastNative' = NCall("nativePassThruClose", device_id, result,
                                   "PassThruClose", device_id, result)
    /\ UNCHANGED <<g_j2534_lib, heap, refcount, jniVars, callerVars, threadVars>>

nativePassThruConnect ==
    \E device_id \in NativeIdIn, protocol_id \in ProtocolIn :
    /\ IF NotBound("PassThruConnect")
       THEN /\ g_last_error_n' = ERR_DEVICE_NOT_CONNECTED
            /\ lastNative' = NCall("nativePassThruConnect",
                                   [device_id |-> device_id, protocol_id |-> protocol_id],
                                   -1, "none", 0, 0)
       ELSE \E result \in DriverStatusIn, channel_id \in DriverIdIn :
            /\ g_last_error_n' = result
            /\ lastNative' = NCall("nativePassThruConnect",
                                   [device_id |-> device_id, protocol_id |-> protocol_id],
                                   IF result = 0 THEN ToJint(channel_id) ELSE -1,
                                   "PassThruConnect",
                                   [DeviceID |-> device_id,
                                    ProtocolID |-> protocol_id],
                                   [result |-> result, id |-> channel_id])
    /\ UNCHANGED <<g_j2534_lib, heap, refcount, jniVars, callerVars, threadVars>>

nativePassThruDisconnect ==
    \E channel_id \in NativeIdIn :
    /\ IF NotBound("PassThruDisconnect")
       THEN /\ g_last_error_n' = ERR_DEVICE_NOT_CONNECTED
            /\ lastNative' = NCall("nativePassThruDisconnect", channel_id,
                                   ERR_DEVICE_NOT_CONNECTED, "none", 0, 0)
       ELSE \E result \in DriverStatusIn :
            /\ g_last_error_n' = result
            /\ lastNative' = NCall("nativePassThruDisconnect", channel_id, result,
                                   "PassThruDisconnect", channel_id, result)
    /\ UNCHANGED <<g_j2534_lib, heap, refcount, jniVars, callerVars, threadVars>>

nativeGetLastError ==
    /\ lastNative' = NCall("nativeGetLastError", 0, g_last_error_n, "none", 0, 0)
    /\ UNCHANGED <<g_j2534_lib, g_last_error_n, heap, refcount,
                   jniVars, callerVars, threadVars>>

(***************************************************************************)
(* Message marshalling (convert_java_message_to_native,                     *)
(* convert_native_message_to_java).  int, jsize and unsigned long are 32    *)
(* bits wide and the int fields below lie in 0..2^31-1, which the casts     *)
(* between them leave as they are; a jlong is its two 32-bit words.         *)
(***************************************************************************)
\* unsigned char Data[4128]
DATA_MAX == 4128

Jlong(hi, lo) == [hi |-> hi, lo |-> lo]
\* static_cast<unsigned long>(jlong): the low 32 bits
ULongOfJlong(j) == j.lo
\* static_cast<jlong>(unsigned long): zero-extended
JlongOfULong(u) == Jlong(0, u)

\* Bytes are kept run-length encoded: a sequence of runs [n, byte], n > 0,
\* neighbouring runs holding different bytes, so that equal byte sequences
\* have equal encodings.
Fill(n, b) == IF n = 0 THEN <<>> ELSE <<[n |-> n, byte |-> b]>>

RECURSIVE Size(_)
Size(bytes) == IF bytes = <<>> THEN 0 ELSE Head(bytes).n + Size(Tail(bytes))

\* bytes a followed by bytes b
Join(a, b) ==
    IF a = <<>> THEN b
    ELSE IF b = <<>> THEN a
    ELSE IF a[Len(a)].byte = Head(b).byte
         THEN SubSeq(a, 1, Len(a) - 1)
                  \o <<[n |-> a[Len(a)].n + Head(b).n, byte |-> Head(b).byte]>>
                  \o Tail(b)
         ELSE a \o b

\* the first n bytes, and all but the first n bytes (n <= Size(bytes))
RECURSIVE Take(_, _)
Take(bytes, n) ==
    IF n = 0 \/ bytes = <<>> THEN <<>>
    ELSE IF Head(bytes).n >= n THEN Fill(n, Head(bytes).byte)
         ELSE <<Head(bytes)>> \o Take(Tail(bytes), n - Head(bytes).n)

RECURSIVE Drop(_, _)
Drop(bytes, n) ==
    IF n = 0 \/ bytes = <<>> THEN bytes
    ELSE IF Head(bytes).n > n
         THEN <<[n |-> Head(bytes).n - n, byte |-> Head(bytes).byte]>> \o Tail(bytes)
         ELSE Drop(Tail(bytes), n - Head(bytes).n)

\* a jbyteArray reference: nullptr, or an array with its bytes
NoArray == [null |-> TRUE, bytes |-> <<>>]
ByteArray(bytes) == [null |-> FALSE, bytes |-> bytes]

\* a J2534Message reference: nullptr, or an object with its fields
JavaMessage(protocolId, rxStatus, txFlags, timestamp, dataSize, extraDataIndex, data) ==
    [null |-> FALSE, protocolId |-> protocolId, rxStatus |-> rxStatus,
     txFlags |-> txFlags, timestamp |-> timestamp, dataSize |-> dataSize,
     extraDataIndex |-> extraDataIndex, data |-> data]
NoMessage == [JavaMessage(0, 0, 0, Jlong(0, 0), 0, 0, NoArray) EXCEPT !.null = TRUE]

\* a PASSTHRU_MSG the caller hands in: its content is whatever was there
StaleMessage(b) ==
    [ProtocolID |-> b, RxStatus |-> b, TxFlags |-> b, Timestamp |-> b,
     DataSize |-> b, ExtraDataIndex |-> b, Data |-> Fill(DATA_MAX, b)]

\* memcpy(dst, src, n)
memcpy(dst, src, n) == Join(Take(src, n), Drop(dst, n))

\* convert_java_message_to_native: *native_msg after the call
convert_java_message_to_native_result(java_msg, native_msg) ==
    IF java_msg.null
    THEN native_msg
    ELSE LET fields == [native_msg EXCEPT
                           !.ProtocolID = java_msg.protocolId,
                           !.RxStatus = java_msg.rxStatus,
                           !.TxFlags = java_msg.txFlags,
                           !.Timestamp = ULongOfJlong(java_msg.timestamp),
                           !.DataSize = java_msg.dataSize,
                           !.ExtraDataIndex = java_msg.extraDataIndex]
             data_length == Size(java_msg.data.bytes)
             copy_length == IF data_length > DATA_MAX THEN DATA_MAX ELSE data_length
         IN  IF java_msg.data.null
             THEN fields
             ELSE [fields EXCEPT !.Data = memcpy(@, java_msg.data.bytes, copy_length)]

\* convert_native_message_to_java: the object it returns.  `found` is whether
\* FindClass and GetMethodID succeed, `beyond` the value of the bytes that
\* SetByteArrayRegion reads past the end of Data when DataSize > 4128.  The
\* fields of the object are the arguments given to NewObject, in their order.
convert_native_message_to_java_result(native_msg, found, beyond) ==
    IF ~found
    THEN NoMessage
    ELSE LET DataSize == native_msg.DataSize
             data_array ==
                 ByteArray(IF DataSize <= DATA_MAX
                           THEN Take(native_msg.Data, DataSize)
                           ELSE Join(native_msg.Data, Fill(DataSize - DATA_MAX, beyond)))
         IN  JavaMessage(native_msg.ProtocolID, native_msg.RxStatus,
                         native_msg.TxFlags, JlongOfULong(native_msg.Timestamp),
                         native_msg.DataSize, native_msg.ExtraDataIndex, data_array)

\* payloads: n bytes 0x3E, and a negative response 0x7F 0x3E 0x12
LengthIn == {0, 2, DATA_MAX, DATA_MAX + 1}
DataIn == {NoArray, ByteArray(<<[n |-> 1, byte |-> 127], [n |-> 1, byte |-> 62],
                                [n |-> 1, byte |-> 18]>>)}
              \cup {ByteArray(Fill(n, 62)) : n \in LengthIn}
TimestampIn == {Jlong(0, 5), Jlong(1, 5)}
JavaMessageIn ==
    {NoMessage} \cup
    {JavaMessage(6, rxStatus, txFlags, timestamp, dataSize, 0, data) :
        rxStatus \in {0, 1}, txFlags \in {0, 64}, timestamp \in TimestampIn,
        dataSize \in LengthIn, data \in DataIn}
StaleIn == {0, 255}

convert_java_message_to_native ==
    \E java_msg \in JavaMessageIn, b \in StaleIn :
        /\ lastNative' = NCall("convert_java_message_to_native", java_msg,
                               convert_java_message_to_native_result(java_msg,
                                                                     StaleMessage(b)),
                               "none", 0, 0)
        /\ UNCHANGED <<g_j2534_lib, g_last_error_n, heap, refcount,
                       jniVars, callerVars, threadVars>>

\* decoding of the PASSTHRU_MSG the last encoding filled
convert_native_message_to_java ==
    /\ lastNative.op = "convert_java_message_to_native"
    /\ \E found \in BOOLEAN, beyond \in StaleIn :
          lastNative' = NCall("convert_native_message_to_java", lastNative.ret,
                              convert_native_message_to_java_result(lastNative.ret,
                                                                    found, beyond),
                              "none", 0, lastNative.arg)
    /\ UNCHANGED <<g_j2534_lib, g_last_error_n, heap, refcount,
                   jniVars, callerVars, threadVars>>

(***************************************************************************)
(* The native bridge statement by statement, for thread t (NativeConcSpec). *)
(* The bridge has no mutex: no step below takes or releases one.            *)
(***************************************************************************)
call_nativeLoadLibrary(t) ==
    /\ Idle(t)
    /\ \E library_path \in {"full.dll", "essential.dll", "absent.dll"} :
          local' = [local EXCEPT ![t].text = library_path]
    /\ Goto(t, "nll_load")
    /\ UNCHANGED <<jniVars, callerVars, lastWrite, nativeVars>>

\* J2534_LIBRARY* lib = load_j2534_library(path)
nll_load(t) ==
    /\ pc[t] = "nll_load"
    /\ FreeAddresses(heap) # {}
    /\ LET r == load_j2534_library(heap, refcount, local[t].text, TRUE)
       IN  /\ heap' = r.heap
           /\ refcount' = r.refcount
           /\ local' = [local EXCEPT ![t].lib = r.lib]
           /\ Goto(t, IF r.lib = 0 THEN "nll_failed" ELSE "nll_bind")
    /\ UNCHANGED <<jniVars, callerVars, lastWrite, g_j2534_lib, g_last_error_n, lastNative>>

\* g_last_error = 0x00000007; return 0
nll_failed(t) ==
    /\ pc[t] = "nll_failed"
    /\ g_last_error_n' = ERR_FAILED
    /\ local' = [local EXCEPT ![t] = NoLocals]
    /\ Goto(t, "idle")
    /\ UNCHANGED <<jniVars, callerVars, lastWrite, g_j2534_lib, heap, refcount, lastNative>>

\* g_j2534_lib = lib
nll_bind(t) ==
    /\ pc[t] = "nll_bind"
    /\ g_j2534_lib' = local[t].lib
    /\ Goto(t, "nll_noerror")
    /\ UNCHANGED <<jniVars, callerVars, local, lastWrite, g_last_error_n, heap, refcount,
                   lastNative>>

\* g_last_error = 0; return lib
nll_noerror(t) ==
    /\ pc[t] = "nll_noerror"
    /\ g_last_error_n' = STATUS_NOERROR
    /\ local' = [local EXCEPT ![t] = NoLocals]
    /\ Goto(t, "idle")
    /\ UNCHANGED <<jniVars, callerVars, lastWrite, g_j2534_lib, heap, refcount, lastNative>>

call_nativePassThruClose(t) ==
    /\ Idle(t)
    /\ Goto(t, "npc_check")
    /\ UNCHANGED <<jniVars, callerVars, local, lastWrite, nativeVars>>

\* if (g_j2534_lib == nullptr || g_j2534_lib->PassThruClose == nullptr)
npc_check(t) ==
    /\ pc[t] = "npc_check"
    /\ Goto(t, IF NotBound("PassThruClose") THEN "npc_unbound" ELSE "npc_call")
    /\ UNCHANGED <<jniVars, callerVars, local, lastWrite, nativeVars>>

\* g_last_error = 0x00000008; return 0x00000008
npc_unbound(t) ==
    /\ pc[t] = "npc_unbound"
    /\ g_last_error_n' = ERR_DEVICE_NOT_CONNECTED
    /\ Goto(t, "idle")
    /\ UNCHANGED <<jniVars, callerVars, local, lastWrite, g_j2534_lib, heap, refcount,
                   lastNative>>

\* long result = g_j2534_lib->PassThruClose(device_id)
npc_call(t) ==
    /\ pc[t] = "npc_call"
    /\ \E result \in DriverStatusIn : local' = [local EXCEPT ![t].i = result]
    /\ Goto(t, "npc_seterror")
    /\ UNCHANGED <<jniVars, callerVars, lastWrite, nativeVars>>

\* g_last_error = result; return result
npc_seterror(t) ==
    /\ pc[t] = "npc_seterror"
    /\ g_last_error_n' = local[t].i
    /\ local' = [local EXCEPT ![t] = NoLocals]
    /\ Goto(t, "idle")
    /\ UNCHANGED <<jniVars, callerVars, lastWrite, g_j2534_lib, heap, refcount, lastNative>>

call_nativeGetLastError(t) ==
    /\ Idle(t)
    /\ Goto(t, "ngle_read")
    /\ UNCHANGED <<jniVars, callerVars, local, lastWrite, nativeVars>>

\* return static_cast<jint>(g_last_error)
ngle_read(t) ==
    /\ pc[t] = "ngle_read"
    /\ local' = [local EXCEPT ![t].i = g_last_error_n]
    /\ Goto(t, "ngle_return")
    /\ UNCHANGED <<jniVars, callerVars, lastWrite, nativeVars>>

ngle_return(t) ==
    /\ pc[t] = "ngle_return"
    /\ local' = [local EXCEPT ![t] = NoLocals]
    /\ Goto(t, "idle")
    /\ UNCHANGED <<jniVars, callerVars, lastWrite, nativeVars>>

(***************************************************************************)
(* The shared variables the next statement of thread t reads or writes.     *)
(***************************************************************************)
Access(var, kind) == [var |-> var, kind |-> kind]

Accesses(t) ==
    CASE pc[t] \in {"sle_copy", "reset_error"} -> {Access("g_last_error", "write")}
      [] pc[t] = "gle_read" -> {Access("g_last_error", "read")}
      [] pc[t] \in {"init_count", "cln_count"} -> {Access("g_device_count", "write")}
      [] pc[t] \in {"init_devices", "cln_devices"} -> {Access("g_devices", "write")}
      [] pc[t] = "scan_loop" -> {Access("g_device_count", "write"),
                                 Access("g_devices", "write")}
      [] pc[t] \in {"nll_failed", "nll_noerror", "npc_unbound", "npc_seterror"}
            -> {Access("g_last_error_n", "write")}
      [] pc[t] = "ngle_read" -> {Access("g_last_error_n", "read")}
      [] pc[t] = "nll_bind" -> {Access("g_j2534_lib", "write")}
      [] pc[t] \in {"npc_check", "npc_call"} -> {Access("g_j2534_lib", "read")}
      [] OTHER -> {}

(***************************************************************************)
(* Initial state: the static initialisers of both source units.             *)
(***************************************************************************)
Init ==
    /\ g_devices = NoDevices
    /\ g_device_count = 0
    /\ g_last_error = ZeroBuf
    /\ g_mutex = 0
    /\ channels = <<>>
    /\ filters = <<>>
    /\ cascaded = {}
    /\ lastCall = Call("none", 0, 0, 0, NoText, 0)
    /\ pc = [t \in 1..NumThreads |-> "idle"]
    /\ local = [t \in 1..NumThreads |-> NoLocals]
    /\ lastWrite = [thread |-> 0, text |-> NoText]
    /\ g_j2534_lib = 0
    /\ g_last_error_n = 0
    /\ heap = [a \in 1..MaxTables |-> FreeBlock]
    /\ refcount = [image \in Images |-> 0]
    /\ lastNative = NCall("none", 0, 0, "none", 0, 0)

(***************************************************************************)
(* Spec: the life cycle of devices, channels and filters.                   *)
(***************************************************************************)
Next ==
    \/ initialize
    \/ (g_device_count < ScanCap /\ scanForDevices)
    \/ connect(DeviceHandleIn, {1, 11})
    \/ disconnect(ChannelHandleIn)
    \/ startMessageFilter(ChannelHandleIn, {PASS_FILTER, 4}, {"bytes"})
    \/ stopMessageFilter(ChannelHandleIn, FilterIdIn)
    \/ setProgrammingVoltage({DEVICE_HANDLE_BASE}, {0, 1}, {0})
    \/ getLastError
    \/ cleanup

Spec == Init /\ [][Next]_vars

(***************************************************************************)
(* CallSpec: the argument checks of the calls, over all their inputs.       *)
(***************************************************************************)
CallNext ==
    \/ initialize
    \/ connect(DeviceHandleIn, ProtocolIn)
    \/ disconnect(ChannelHandleIn)
    \/ writeMessages({DEVICE_HANDLE_BASE + CHANNEL_OFFSET}, MessagesIn)
    \/ setProgrammingVoltage(DeviceHandleIn, PinIn, VoltageIn)
    \/ getLastError

CallSpec == Init /\ [][CallNext]_vars

(***************************************************************************)
(* ValidationSpec: the argument checks of startMessageFilter and            *)
(* setProgrammingVoltage with devices registered and channels connected.    *)
(***************************************************************************)
ValidationNext ==
    \/ initialize
    \/ (g_device_count < ScanCap /\ scanForDevices)
    \/ connect({DEVICE_HANDLE_BASE}, {1})
    \/ startMessageFilter({DEVICE_HANDLE_BASE + CHANNEL_OFFSET}, FilterTypeIn, PayloadIn)
    \/ stopMessageFilter({DEVICE_HANDLE_BASE + CHANNEL_OFFSET}, FilterIdIn)
    \/ setProgrammingVoltage({DEVICE_HANDLE_BASE}, PinIn, VoltageIn)
    \/ startPeriodicMessage({DEVICE_HANDLE_BASE + CHANNEL_OFFSET},
                            {NullObj, Message(ISO15765)}, PeriodIn)
    \/ ioctl({DEVICE_HANDLE_BASE + CHANNEL_OFFSET}, IoctlIn)
    \/ getLastError

ValidationSpec == Init /\ [][ValidationNext]_vars

(***************************************************************************)
(* ResultSpec: connect and startMessageFilter on handles of the whole range *)
(* the calls accept (a jlong; neither call looks the handle up).            *)
(***************************************************************************)
ResultNext ==
    \/ initialize
    \/ connect(AnyHandleIn, {1, 11})
    \/ startMessageFilter(AnyHandleIn, {PASS_FILTER, 4}, {"bytes"})
    \/ getLastError

ResultSpec == Init /\ [][ResultNext]_vars

(***************************************************************************)
(* ReadSpec: readMessages on the arrays a caller may hand in.               *)
(***************************************************************************)
ReadNext ==
    \/ initialize
    \/ connect({DEVICE_HANDLE_BASE}, {1})
    \/ readMessages({DEVICE_HANDLE_BASE + CHANNEL_OFFSET}, ReadBuffersIn)
    \/ getLastError

ReadSpec == Init /\ [][ReadNext]_vars

(***************************************************************************)
(* RegistrySpec: the device registry up to its capacity.                    *)
(***************************************************************************)
RegistryNext ==
    \/ initialize
    \/ scanForDevices
    \/ setProgrammingVoltage({DEVICE_HANDLE_BASE}, {0, 1}, {0})
    \/ getLastError
    \/ cleanup

RegistrySpec == Init /\ [][RegistryNext]_vars

(***************************************************************************)
(* NativeSpec: the native bridge, next to the wrapper's initialize/cleanup. *)
(***************************************************************************)
NativeNext ==
    \/ nativeLoadLibrary
    \/ nativePassThruOpen
    \/ nativePassThruClose
    \/ nativePassThruConnect
    \/ nativePassThruDisconnect
    \/ nativeGetLastError
    \/ initialize
    \/ cleanup

NativeSpec == Init /\ [][NativeNext]_vars

(***************************************************************************)
(* MarshalSpec: a message encoded into a PASSTHRU_MSG and decoded again.    *)
(***************************************************************************)
MarshalNext ==
    \/ convert_java_message_to_native
    \/ convert_native_message_to_java

MarshalSpec == Init /\ [][MarshalNext]_vars

(***************************************************************************)
(* ConcSpec: wrapper calls of several threads under the global mutex.       *)
(***************************************************************************)
ConcNext ==
    \E t \in Threads :
        \/ call_connect_invalid(t)
        \/ call_setProgrammingVoltage_invalid(t)
        \/ sle_lock(t)
        \/ sle_copy(t)
        \/ sle_unlock(t)
        \/ call_getLastError(t)
        \/ gle_lock(t)
        \/ gle_read(t)
        \/ gle_unlock(t)
        \/ call_initialize(t)
        \/ call_cleanup(t)
        \/ reset_lock(t)
        \/ reset_count(t)
        \/ reset_devices(t)
        \/ reset_error(t)
        \/ reset_unlock(t)
        \/ (g_device_count < ScanCap /\ call_scanForDevices(t))
        \/ scan_lock(t)
        \/ scan_loop(t)
        \/ scan_unlock(t)

ConcSpec == Init /\ [][ConcNext]_vars

\* the steps of thread t that wait for the mutex, and all its steps after the
\* call was made
LockSteps(t) == sle_lock(t) \/ gle_lock(t) \/ reset_lock(t) \/ scan_lock(t)
BodySteps(t) ==
    \/ sle_copy(t) \/ sle_unlock(t)
    \/ gle_read(t) \/ gle_unlock(t)
    \/ reset_count(t) \/ reset_devices(t) \/ reset_error(t) \/ reset_unlock(t)
    \/ scan_loop(t) \/ scan_unlock(t)

\* the calls that take the mutex: a failing operation (through setLastError),
\* getLastError, initialize, cleanup and scanForDevices
LockNext ==
    \E t \in Threads :
        \/ call_connect_invalid(t)
        \/ call_getLastError(t)
        \/ call_initialize(t)
        \/ call_cleanup(t)
        \/ (g_device_count < ScanCap /\ call_scanForDevices(t))
        \/ LockSteps(t)
        \/ BodySteps(t)

\* these calls under fair scheduling: a thread that can run its next
\* statement runs it, and a thread waiting in pthread_mutex_lock gets the mutex
\* if it is free again and again; no thread is obliged to make a call
ConcFairSpec ==
    /\ Init /\ [][LockNext]_vars
    /\ \A t \in Threads : WF_threadVars(BodySteps(t)) /\ SF_threadVars(LockSteps(t))

(***************************************************************************)
(* ScanConcSpec: initialize, scanForDevices and cleanup of several threads, *)
(* with as many scans as the threads make.                                  *)
(***************************************************************************)
ScanConcNext ==
    \E t \in Threads :
        \/ call_initialize(t)
        \/ call_cleanup(t)
        \/ call_scanForDevices(t)
        \/ reset_lock(t)
        \/ reset_count(t)
        \/ reset_devices(t)
        \/ reset_error(t)
        \/ reset_unlock(t)
        \/ scan_lock(t)
        \/ scan_loop(t)
        \/ scan_unlock(t)

ScanConcSpec == Init /\ [][ScanConcNext]_vars

(***************************************************************************)
(* NativeConcSpec: native-bridge calls of several threads.                  *)
(***************************************************************************)
NativeConcNext ==
    \E t \in Threads :
        \/ call_nativeLoadLibrary(t)
        \/ nll_load(t)
        \/ nll_failed(t)
        \/ nll_bind(t)
        \/ nll_noerror(t)
        \/ call_nativePassThruClose(t)
        \/ npc_check(t)
        \/ npc_unbound(t)
        \/ npc_call(t)
        \/ npc_seterror(t)
        \/ call_nativeGetLastError(t)
        \/ ngle_read(t)
        \/ ngle_return(t)

NativeConcSpec == Init /\ [][NativeConcNext]_vars

(***************************************************************************)
(* Properties.                                                              *)
(***************************************************************************)
Succeeded(call) ==
    /\ call.op \in {"connect", "disconnect", "writeMessages", "startMessageFilter",
                    "stopMessageFilter", "setProgrammingVoltage", "readMessages",
                    "startPeriodicMessage", "ioctl"}
    /\ call.err = NoText

\* C1: a connect with a protocol id outside 1..10 fails with
\* ERR_INVALID_PROTOCOL_ID, creates no channel and never reaches the driver's
\* connect entry point, on the wrapper's connect and on nativePassThruConnect
\* (where, with no driver bound, there is no entry point to reach).
C1_InvalidProtocolRejected ==
    /\ (lastCall.op = "connect" /\ ~ValidProtocol(lastCall.arg))
           => /\ lastCall.ret = ERR_INVALID_PROTOCOL_ID
              /\ lastNative.drv # "PassThruConnect"
    /\ (lastNative.op = "nativePassThruConnect"
            /\ ~ValidProtocol(lastNative.arg.protocol_id))
           => /\ lastNative.drv = "none"
              /\ lastNative.ret = -1
              /\ g_j2534_lib # 0 => g_last_error_n = ERR_INVALID_PROTOCOL_ID

\* the channels that were active before the last connect added its own
ChannelsBefore == Range(SubSeq(channels, 1, Len(channels) - 1))

\* C2: a successful connect on an open device returns a channel handle that
\* differs from every active device handle and from every channel handle
\* that is still active (connected earlier and not yet disconnected).
C2_ChannelHandleFresh ==
    (lastCall.op = "connect" /\ Succeeded(lastCall) /\ lastCall.pre)
        => /\ lastCall.ret \notin RegisteredHandles
           /\ lastCall.ret \notin ChannelsBefore

\* C3: in every reachable state the handles of the devices the registry holds
\* are pairwise distinct, also after discovery has run more than once.
C3_DeviceHandlesDistinct ==
    \A j, k \in 0..(g_device_count - 1) :
        j # k => g_devices[j].handle # g_devices[k].handle

\* C4: discovery fills the registry up to its 32 slots; a discovery that finds
\* the registry full registers nothing and reports a resource-exhaustion error
\* to the caller.
C4_FullRegistryReported ==
    /\ g_device_count <= MAX_DEVICES
    /\ (lastCall.op = "scanForDevices" /\ lastCall.pre < MAX_DEVICES)
           => Len(lastCall.ret) > 0
    /\ (lastCall.op = "scanForDevices" /\ lastCall.pre = MAX_DEVICES)
           => /\ g_device_count = MAX_DEVICES
              /\ lastCall.ret = <<>>
              /\ lastCall.err # NoText

\* C5: once a channel is disconnected, stopping a filter that was started on
\* it returns an error; it never returns success as if the filter were live.
C5_StopAfterDisconnectFails ==
    (lastCall.op = "stopMessageFilter" /\ lastCall.pre.cascaded)
        => lastCall.ret # STATUS_NOERROR

\* the messages writeMessages was asked to write: the first numMessages
\* elements of the array that hold a message
Batch(arg) ==
    {arg.messages.elems[i] : i \in {j \in 1..arg.numMessages :
                                        ~arg.messages.elems[j].null}}

\* C6: writeMessages validates all or nothing: a batch with a message, at any
\* position, whose protocol id is outside 1..10 returns ERR_INVALID_MSG and
\* nothing reaches the driver; a batch of valid messages returns STATUS_NOERROR.
C6_WriteAllOrNothing ==
    (lastCall.op = "writeMessages" /\ ~lastCall.arg.messages.null)
        => IF \E m \in Batch(lastCall.arg) : m.protocolID \notin PROTOCOL_MIN..PROTOCOL_MAX
           THEN lastCall.ret = ERR_INVALID_MSG /\ lastNative.op = "none"
           ELSE lastCall.ret = STATUS_NOERROR

\* a valid message followed by an invalid one was rejected
C6_Witness ==
    /\ lastCall.op = "writeMessages"
    /\ ~lastCall.arg.messages.null
    /\ lastCall.arg.numMessages = 2
    /\ lastCall.arg.messages.elems = <<Message(1), Message(11)>>
    /\ lastCall.ret = ERR_INVALID_MSG

\* C7: the error state is overwritten by every call: after a call that
\* succeeded the error state holds no error, whatever failed before it.
C7_ErrorStateFollowsLastCall ==
    Succeeded(lastCall) => g_last_error = ZeroBuf

\* two statements of different threads, next to execute, that touch the same
\* shared variable, one of them writing it
Conflict(t1, t2) ==
    \E a1 \in Accesses(t1), a2 \in Accesses(t2) :
        a1.var = a2.var /\ "write" \in {a1.kind, a2.kind}

\* C8: every read and write of the error state, the registries and the bound
\* driver slot is done holding the global lock: no thread is about to write
\* one of them while another is about to read or write it without the lock.
C8_NoUnlockedConflict ==
    \A t1, t2 \in Threads :
        (t1 # t2 /\ Conflict(t1, t2)) => (g_mutex = t1 /\ g_mutex = t2)

\* C9: the value getLastError is about to return is one whole value, the one
\* stored by the last write of the error state that finished (a text of one
\* failing call, or the empty value of initialize or cleanup).
C9_ReadsLastWholeWrite ==
    \A t \in Threads :
        pc[t] = "gle_unlock"
            => /\ Whole(local[t].result)
               /\ local[t].result[1] = lastWrite.text

\* a thread reads the error another thread stored
C9_Witness ==
    \E t \in Threads :
        /\ pc[t] = "gle_unlock"
        /\ local[t].result[1] \in Texts
        /\ lastWrite.thread # t

\* C10: load_j2534_library returns a table exactly when the image loads, the
\* table is allocated and the four essential entry points resolve (whatever
\* else is missing); every other load returns nullptr and leaves no image
\* loaded and no table allocated.
C10_LoadNeedsEssential ==
    (lastNative.op = "nativeLoadLibrary" /\ lastNative.arg.pathOk)
        => LET path == lastNative.arg.path
               pre == lastNative.pre
               lib == lastNative.ret
           IN  IF path \in Images /\ lastNative.arg.mallocOk /\ Essential \subseteq Exports(path)
               THEN /\ lib # 0
                    /\ heap[lib].used
                    /\ ~pre.heap[lib].used
                    /\ heap[lib].hLibrary = path
                    /\ heap[lib].fns = Exports(path)
                    /\ refcount = [pre.refcount EXCEPT ![path] = @ + 1]
               ELSE /\ lib = 0
                    /\ heap = pre.heap
                    /\ refcount = pre.refcount

\* an image without PassThruDisconnect was refused
C10_Witness ==
    /\ lastNative.op = "nativeLoadLibrary"
    /\ lastNative.arg.pathOk
    /\ lastNative.arg.mallocOk
    /\ lastNative.arg.path = "no_disconnect.dll"
    /\ lastNative.ret = 0

\* the driver images the process holds loaded, and the driver tables it holds
LoadedImages == {image \in Images : refcount[image] > 0}
LiveTables == {a \in DOMAIN heap : heap[a].used}

\* C11: at most one driver image is loaded at a time: every loaded image is
\* the image of the bound driver table, it is loaded once, and no table other
\* than the bound one is kept, also after a second successful load.
C11_OnlyBoundImageLoaded ==
    /\ \A image \in LoadedImages :
          /\ g_j2534_lib # 0
          /\ heap[g_j2534_lib].hLibrary = image
          /\ refcount[image] = 1
    /\ LiveTables \subseteq {g_j2534_lib}

\* the state in which no native call has completed since the last cleanup
JustCleanedUp ==
    /\ lastCall.op = "cleanup"
    /\ lastNative.op = lastCall.pre.native.op
    /\ lastNative = lastCall.pre.native

\* C12: right after cleanup the device registry is empty, the error state is
\* zeroed and no driver is bound or loaded: the bound driver's table and
\* image are released.
C12_CleanupReleasesAll ==
    JustCleanedUp
        => /\ g_device_count = 0
           /\ g_devices = NoDevices
           /\ g_last_error = ZeroBuf
           /\ g_j2534_lib = 0
           /\ LoadedImages = {}
           /\ LiveTables = {}

\* the handles a caller obtained before the cleanup: the registered device
\* handles and the handles of the channels it had connected
PreCleanupHandles == lastCall.pre.handles \cup Range(channels)

\* C13: the first operation after a cleanup that is given a device or
\* channel handle obtained before the cleanup does not succeed.
C13_PreCleanupHandlesFail ==
    [][(/\ lastCall.op = "cleanup"
        /\ lastCall'.op \in {"connect", "disconnect", "startMessageFilter",
                             "stopMessageFilter", "setProgrammingVoltage"}
        /\ lastCall'.handle \in PreCleanupHandles)
           => ~Succeeded(lastCall')]_(lastCall.op)

\* C14: cleanup followed at once by initialize leaves the program in its
\* state at process start: empty registry, zero count, zeroed error states,
\* free mutex, no driver bound, loaded or allocated.
C14_CleanupInitializeIsFreshStart ==
    [][(JustCleanedUp /\ lastCall'.op = "initialize")
           => /\ g_devices' = NoDevices
              /\ g_device_count' = 0
              /\ g_last_error' = ZeroBuf
              /\ g_mutex' = 0
              /\ g_j2534_lib' = 0
              /\ g_last_error_n' = 0
              /\ \A a \in DOMAIN heap' : heap'[a] = FreeBlock
              /\ \A image \in Images : refcount'[image] = 0]_(lastCall.op)

\* C15: a message whose payload has at most 4128 bytes, encoded and decoded
\* again, comes back with the same payload (length and bytes), protocol id,
\* rx status, tx flags and 64-bit timestamp.
C15_RoundTrip ==
    (/\ lastNative.op = "convert_native_message_to_java"
     /\ ~lastNative.pre.null
     /\ ~lastNative.pre.data.null
     /\ Size(lastNative.pre.data.bytes) <= DATA_MAX)
        => /\ ~lastNative.ret.null
           /\ lastNative.ret.data = lastNative.pre.data
           /\ lastNative.ret.protocolId = lastNative.pre.protocolId
           /\ lastNative.ret.rxStatus = lastNative.pre.rxStatus
           /\ lastNative.ret.txFlags = lastNative.pre.txFlags
           /\ lastNative.ret.timestamp = lastNative.pre.timestamp

\* C16: the encoded PASSTHRU_MSG records a payload length (DataSize) of at
\* most 4128, and a decoding of it reads at most 4128 bytes.
C16_PayloadBound ==
    /\ (lastNative.op = "convert_java_message_to_native" /\ ~lastNative.arg.null)
           => lastNative.ret.DataSize <= DATA_MAX
    /\ (lastNative.op = "convert_native_message_to_java" /\ ~lastNative.ret.null)
           => Size(lastNative.ret.data.bytes) <= DATA_MAX

\* what the last setProgrammingVoltage was given and returned, if it was the
\* last call
VoltageCall ==
    IF lastCall.op = "setProgrammingVoltage"
    THEN <<lastCall.handle, lastCall.arg.pinNumber, lastCall.arg.voltage, lastCall.ret>>
    ELSE <<>>

\* C17: setProgrammingVoltage returns ERR_PIN_INVALID exactly when the pin
\* is outside 1..16, returns STATUS_NOERROR for every pin in 1..16 whatever
\* the voltage, and never changes the device registry, the channels, the
\* filters or the driver.
C17_PinCheckedVoltageAccepted ==
    [][lastCall'.op = "setProgrammingVoltage"
           => /\ lastCall'.ret = ERR_PIN_INVALID
                     <=> lastCall'.arg.pinNumber \notin 1..16
              /\ lastCall'.arg.pinNumber \in 1..16
                     => lastCall'.ret = STATUS_NOERROR
              /\ UNCHANGED <<g_devices, g_device_count, channels, filters, cascaded,
                             g_j2534_lib, g_last_error_n, heap, refcount>>
      ]_<<lastCall.op, VoltageCall>>

C17_Witness ==
    /\ lastCall.op = "setProgrammingVoltage"
    /\ lastCall.arg.pinNumber = 16
    /\ lastCall.arg.voltage = 5000
    /\ lastCall.ret = STATUS_NOERROR
    /\ g_device_count > 0
    /\ channels # <<>>

\* what the last startMessageFilter was given and returned, if it was the
\* last call
FilterCall ==
    IF lastCall.op = "startMessageFilter"
    THEN <<lastCall.handle, lastCall.arg.filterType, lastCall.arg.mask,
           lastCall.arg.pattern, lastCall.ret>>
    ELSE <<>>

\* C18: startMessageFilter with mask or pattern absent returns
\* ERR_NULL_PARAMETER, also when the filter type is invalid as well; with both
\* present and a filter type other than 1, 2, 3 it returns
\* ERR_INVALID_IOCTL_VALUE; in both cases no filter is created; otherwise it
\* succeeds and the caller holds one more filter, with the id returned.  The
\* driver is not reached in any case.
C18_FilterArgumentsChecked ==
    [][lastCall'.op = "startMessageFilter"
           => LET a == lastCall'.arg
                  absent == a.mask = NULL \/ a.pattern = NULL
                  badType == a.filterType \notin {1, 2, 3}
              IN  /\ absent => /\ lastCall'.ret = ERR_NULL_PARAMETER
                               /\ filters' = filters
                  /\ (~absent /\ badType)
                        => /\ lastCall'.ret = ERR_INVALID_IOCTL_VALUE
                           /\ filters' = filters
                  /\ (~absent /\ ~badType)
                        => /\ Succeeded(lastCall')
                           /\ filters' = Append(filters, [channel |-> lastCall'.handle,
                                                          id |-> lastCall'.ret])
                  /\ UNCHANGED <<g_j2534_lib, g_last_error_n, heap, refcount>>
      ]_<<lastCall.op, FilterCall>>

C18_Witness ==
    /\ lastCall.op = "startMessageFilter"
    /\ lastCall.arg.mask = NULL
    /\ lastCall.arg.filterType = 4
    /\ lastCall.ret = ERR_NULL_PARAMETER
    /\ channels # <<>>

\* the filters that were active before the last startMessageFilter added its own
FiltersBefore == Range(SubSeq(filters, 1, Len(filters) - 1))

\* C19: a successful startMessageFilter returns an id that no filter started
\* earlier and not yet stopped has; the ids of the active filters are
\* pairwise distinct.
C19_FilterIdsDistinct ==
    /\ (lastCall.op = "startMessageFilter" /\ Succeeded(lastCall))
           => lastCall.ret \notin {f.id : f \in FiltersBefore}
    /\ \A j, k \in DOMAIN filters : j # k => filters[j].id # filters[k].id

\* C20: a disconnect of a channel handle that is not connected (never
\* connected, or disconnected already) returns an error and changes nothing;
\* disconnect returns STATUS_NOERROR only for a connected channel.
C20_DisconnectUnknownFails ==
    lastCall.op = "disconnect"
        => /\ lastCall.ret = STATUS_NOERROR <=> lastCall.pre
           /\ ~lastCall.pre => g_last_error # ZeroBuf

\* C21: a connect on a device handle that is not in the device registry
\* fails with ERR_DEVICE_NOT_CONNECTED, and every active channel belongs to
\* a device the registry holds, also after initialize or cleanup emptied it.
C21_ChannelsReferenceOpenDevices ==
    /\ (lastCall.op = "connect" /\ ~lastCall.pre)
           => lastCall.ret = ERR_DEVICE_NOT_CONNECTED
    /\ \A i \in DOMAIN channels : channels[i] - CHANNEL_OFFSET \in RegisteredHandles

\* the status error codes of j2534_jni.h: 0x01 .. 0x1D
ErrorCodes == 1..29

\* C26: the value a successful connect or startMessageFilter returns is not
\* one of the status error codes, whatever handle the call was given.
C26_SuccessIsNotAnErrorCode ==
    (lastCall.op \in {"connect", "startMessageFilter"} /\ Succeeded(lastCall))
        => lastCall.ret \notin ErrorCodes

\* what the last ioctl was given and returned, if it was the last call
IoctlCall ==
    IF lastCall.op = "ioctl" THEN <<lastCall.handle, lastCall.arg, lastCall.ret>> ELSE <<>>

\* C22: ioctl returns ERR_INVALID_IOCTL_ID and records an error exactly for
\* the control codes other than 0x01, 0x02, 0x03, 0x07; for these four it
\* returns STATUS_NOERROR and leaves the error state as it was; it never
\* changes the registry, the channels, the filters or the driver.
C22_IoctlCodesChecked ==
    [][lastCall'.op = "ioctl"
           => /\ IF lastCall'.arg \in {1, 2, 3, 7}
                 THEN /\ lastCall'.ret = STATUS_NOERROR
                      /\ g_last_error' = g_last_error
                 ELSE /\ lastCall'.ret = ERR_INVALID_IOCTL_ID
                      /\ \A i \in 1..BufLen :
                             g_last_error'[i] = "Unsupported IOCTL operation"
              /\ UNCHANGED <<g_devices, g_device_count, channels, filters, cascaded,
                             g_j2534_lib, g_last_error_n, heap, refcount>>
      ]_<<lastCall.op, IoctlCall>>

C22_Witness ==
    /\ lastCall.op = "ioctl"
    /\ lastCall.arg = 7
    /\ lastCall.ret = STATUS_NOERROR
    /\ \A i \in 1..BufLen : g_last_error[i] = "Invalid pin number"
    /\ g_device_count > 0

\* the number of messages the call delivered: the elements of the array it
\* wrote a message into
Delivered(call) ==
    Cardinality({i \in DOMAIN call.arg.out.elems :
                    call.arg.out.elems[i] # call.arg.messages.elems[i]})

\* C24: readMessages without a message array fails with ERR_NULL_PARAMETER;
\* with one it delivers at most numMessages messages and the count it hands
\* back to the caller (its return value is all it hands back) is the number
\* of messages it delivered.
C24_ReadCountReported ==
    lastCall.op = "readMessages"
        => IF lastCall.arg.messages.null
           THEN lastCall.ret = ERR_NULL_PARAMETER
           ELSE /\ Delivered(lastCall) <= lastCall.arg.numMessages
                /\ lastCall.ret = Delivered(lastCall)

\* C25: startPeriodicMessage without a message fails with
\* ERR_NULL_PARAMETER, and it never succeeds with a period of 0 ms or less.
C25_PeriodPositive ==
    lastCall.op = "startPeriodicMessage"
        => /\ lastCall.arg.message.null => lastCall.ret = ERR_NULL_PARAMETER
           /\ Succeeded(lastCall) => lastCall.arg.period > 0

\* the native calls that forward to a driver entry point, with that entry point
Forwarders ==
    {<<"nativePassThruOpen", "PassThruOpen">>, <<"nativePassThruClose", "PassThruClose">>,
     <<"nativePassThruConnect", "PassThruConnect">>,
     <<"nativePassThruDisconnect", "PassThruDisconnect">>}

\* C23: after a native open, close, connect or disconnect that reached the
\* driver the error state is the status the driver returned; close and
\* disconnect return that status; open and connect return the id the driver
\* assigned when the status is STATUS_NOERROR, and return -1, the failure
\* indicator, exactly when it is not.
C23_DriverStatusVerbatim ==
    \A f \in Forwarders :
        (lastNative.op = f[1] /\ lastNative.drv = f[2])
            => IF f[1] \in {"nativePassThruClose", "nativePassThruDisconnect"}
               THEN /\ g_last_error_n = lastNative.pre
                    /\ lastNative.ret = lastNative.pre
               ELSE /\ g_last_error_n = lastNative.pre.result
                    /\ lastNative.ret = -1 <=> lastNative.pre.result # STATUS_NOERROR
                    /\ lastNative.pre.result = STATUS_NOERROR
                          => /\ lastNative.ret >= 0
                             /\ lastNative.ret \div 65536 = lastNative.pre.id.hi
                             /\ lastNative.ret % 65536 = lastNative.pre.id.lo

\* no entry point fn to call: no driver bound, or the bound one lacks fn
NoEntryPoint(fn) == g_j2534_lib = 0 \/ fn \notin heap[g_j2534_lib].fns

\* C27: with no driver bound (or the entry point absent) a native open,
\* close, connect or disconnect calls no driver entry point, sets the error
\* state to ERR_DEVICE_NOT_CONNECTED (8) and returns -1 (open, connect) or 8
\* (close, disconnect).
C27_UnboundNeverForwards ==
    \A f \in Forwarders :
        (lastNative.op = f[1] /\ NoEntryPoint(f[2]))
            => /\ lastNative.drv = "none"
               /\ g_last_error_n = 8
               /\ lastNative.ret =
                      IF f[1] \in {"nativePassThruOpen", "nativePassThruConnect"}
                      THEN -1 ELSE 8

C27_Witness ==
    /\ lastNative.op = "nativePassThruConnect"
    /\ g_j2534_lib = 0
    /\ lastNative.ret = -1
    /\ lastNative.drv = "none"
    /\ g_last_error_n = ERR_DEVICE_NOT_CONNECTED

\* the load that fails: no path, no image at the path, no memory for the
\* table, or an essential entry point missing from the image
LoadFails(arg) ==
    \/ ~arg.pathOk
    \/ arg.path \notin Images
    \/ ~arg.mallocOk
    \/ ~({"PassThruOpen", "PassThruClose", "PassThruConnect", "PassThruDisconnect"}
             \subseteq Exports(arg.path))

\* C30: a nativeLoadLibrary that fails returns 0 and changes nothing but the
\* error state (ERR_NULL_PARAMETER without a path, ERR_FAILED otherwise): the
\* driver bound before stays bound, with its table and image; one that
\* succeeds returns the non-zero table address, binds it and sets the error
\* state to STATUS_NOERROR.
C30_FailedLoadKeepsBinding ==
    lastNative.op = "nativeLoadLibrary"
        => IF LoadFails(lastNative.arg)
           THEN /\ lastNative.ret = 0
                /\ g_j2534_lib = lastNative.pre.lib
                /\ heap = lastNative.pre.heap
                /\ refcount = lastNative.pre.refcount
                /\ g_last_error_n = IF lastNative.arg.pathOk THEN ERR_FAILED
                                    ELSE ERR_NULL_PARAMETER
           ELSE /\ lastNative.ret # 0
                /\ g_j2534_lib = lastNative.ret
                /\ g_last_error_n = STATUS_NOERROR

C30_Witness ==
    /\ lastNative.op = "nativeLoadLibrary"
    /\ lastNative.arg.pathOk
    /\ lastNative.arg.mallocOk
    /\ lastNative.arg.path = "no_connect.dll"
    /\ lastNative.ret = 0
    /\ lastNative.pre.lib # 0
    /\ g_j2534_lib = lastNative.pre.lib

\* where a thread is about to call pthread_mutex_lock
LockLabels == {"sle_lock", "gle_lock", "init_lock", "cln_lock", "scan_lock"}

\* C28: a thread about to lock the mutex does not hold it (setLastError is
\* entered with the mutex released), a thread that returned does not hold it,
\* and under fair scheduling every call made eventually returns.
C28_EveryCallReturns ==
    /\ [](\A t \in Threads : pc[t] \in LockLabels \cup {"idle"} => g_mutex # t)
    /\ \A t \in Threads : (pc[t] # "idle") ~> (pc[t] = "idle")

\* a failing call waits in setLastError for the mutex another thread holds
C28_Witness ==
    \E t, u \in Threads :
        /\ pc[t] = "sle_lock"
        /\ g_mutex = u
        /\ u # t
        /\ pc[u] \in {"scan_loop", "reset_error", "gle_read", "sle_copy"}

\* the registry slots that hold a device
PopulatedSlots == {k \in DOMAIN g_devices : g_devices[k].handle # 0}

\* C29: whatever the interleaving of initialize, scanForDevices and cleanup,
\* the device count is within 0..32; between calls it is the number of
\* populated slots; a scan that is about to return has raised it by
\* min(2, 32 - count) and has written exactly the slots from the old count up
\* to the new one, all below 32; an initialize or cleanup that is about to
\* return has left it 0.
C29_CountMatchesRegistry ==
    /\ g_device_count \in 0..MAX_DEVICES
    /\ PopulatedSlots \subseteq 0..(MAX_DEVICES - 1)
    /\ g_mutex = 0 => g_device_count = Cardinality(PopulatedSlots)
    /\ \A t \in Threads :
          /\ pc[t] = "scan_unlock"
                => LET entry == local[t].entry
                       room == MAX_DEVICES - entry
                   IN  /\ g_device_count
                              = entry + (IF room < SCAN_FOUND THEN room ELSE SCAN_FOUND)
                       /\ \A k \in entry..(g_device_count - 1) :
                              /\ k < MAX_DEVICES
                              /\ g_devices[k].handle = DEVICE_HANDLE_BASE + (k - entry)
          /\ pc[t] = "reset_unlock" => g_device_count = 0 /\ PopulatedSlots = {}

\* a scan of the full registry is about to return while another call waits
C29_Witness ==
    \E t, u \in Threads :
        /\ pc[t] = "scan_unlock"
        /\ local[t].entry = MAX_DEVICES
        /\ g_device_count = MAX_DEVICES
        /\ pc[u] \in {"init_lock", "cln_lock", "scan_lock"}

====
